---- MODULE Spec2Model ----
(***************************************************************************)
(* A model of the ray tracer of Proyecto2GPC (src/src/main.rs and          *)
(* src/src/cube.rs): the slab intersection of Cube, the clipped plane      *)
(* intersection of Plane, the Skybox presets, the shader cast_ray and the  *)
(* per-pixel scan of render.                                               *)
(*                                                                         *)
(* f32 values are modelled as extended rationals <<n, d>>:                 *)
(*   d > 0          the finite value n/d in lowest terms                   *)
(*   <<0, -1>>      the negative zero -0.0 (kept on inputs only: it is     *)
(*                  the reciprocal that tells it from +0.0)                *)
(*   <<1, 0>>       +infinity      <<-1, 0>>   -infinity                   *)
(*   <<0, 0>>       NaN                                                    *)
(* The operations follow IEEE 754 on these values; rounding is not         *)
(* modelled (every finite result is exact).                                *)
(***************************************************************************)
EXTENDS Integers, Sequences, FiniteSets, TLC

VARIABLES
    pc,                   \* position of the modelled call / of render
    plane,                \* the Plane handed to render / Plane::ray_intersect
    cubes,                \* the slice of Cube handed to render / the Cube tested
    light,                \* the Light
    skybox,               \* the Skybox
    ray_origin,           \* camera.eye in render; the ray origin of a direct call
    rays,                 \* the rotated_direction render computes for each pixel
    ray_direction,        \* rotated_direction in render; the ray direction
    intersect,            \* the Intersect returned by the last ray_intersect
    pixel_color,          \* render's pixel_color
    nearest_intersection, \* render's nearest_intersection
    idx,                  \* position of render's `for cube in cubes`
    px,                   \* render's x
    py,                   \* render's y
    framebuffer,          \* the framebuffer cells written by render
    sampled,              \* the Color returned by the last Skybox::sample
    last_call,            \* history: the last Skybox setter called
    tiempo,               \* main's tiempo
    is_day,               \* main's is_day
    cubos_agua,           \* main's cubos_agua
    down,                 \* history: the keys among D and N found down in this frame
    writes,               \* history: how often each cell was written in this scan
    presented             \* the buffer last handed to window.update_with_buffer

vars == <<pc, plane, cubes, light, skybox, ray_origin, rays, ray_direction, intersect,
          pixel_color, nearest_intersection, idx, px, py, framebuffer, sampled,
          last_call, tiempo, is_day, cubos_agua, down, writes, presented>>

(***************************************************************************)
(* f32 arithmetic                                                          *)
(***************************************************************************)
Abs(n) == IF n < 0 THEN -n ELSE n

Sign(n) == IF n < 0 THEN -1 ELSE IF n > 0 THEN 1 ELSE 0

RECURSIVE GCD(_, _)
GCD(a, b) == IF b = 0 THEN a ELSE GCD(b, a % b)

\* the finite value n/d (d # 0), in lowest terms with a positive denominator
Q(n, d) ==
    LET g == GCD(Abs(n), Abs(d))
    IN  <<(Sign(d) * n) \div g, Abs(d) \div g>>

PInf == <<1, 0>>

NInf == <<-1, 0>>

NaN == <<0, 0>>

NegZero == <<0, -1>>

Zero == <<0, 1>>

One == <<1, 1>>

Two == <<2, 1>>

IsNaN(a) == a = NaN

IsInf(a) == a[2] = 0 /\ a[1] # 0

IsFin(a) == a[2] # 0

IsZero(a) == a[2] # 0 /\ a[1] = 0

Den(a) == Abs(a[2])

FNeg(a) ==
    IF IsNaN(a) THEN NaN
    ELSE IF IsInf(a) THEN <<-a[1], 0>>
    ELSE IF IsZero(a) THEN Zero
    ELSE <<-a[1], a[2]>>

FAdd(a, b) ==
    IF IsNaN(a) \/ IsNaN(b) THEN NaN
    ELSE IF IsInf(a) /\ IsInf(b) THEN (IF a = b THEN a ELSE NaN)
    ELSE IF IsInf(a) THEN a
    ELSE IF IsInf(b) THEN b
    ELSE LET g == GCD(Den(a), Den(b))
             l == (Den(a) \div g) * Den(b)
         IN  Q(a[1] * (l \div Den(a)) + b[1] * (l \div Den(b)), l)

FSub(a, b) == FAdd(a, FNeg(b))

FMul(a, b) ==
    IF IsNaN(a) \/ IsNaN(b) THEN NaN
    ELSE IF IsInf(a) \/ IsInf(b)
         THEN (IF IsZero(a) \/ IsZero(b) THEN NaN
               ELSE <<Sign(a[1]) * Sign(b[1]), 0>>)
    ELSE LET g1 == GCD(Abs(a[1]), Den(b))
             g2 == GCD(Abs(b[1]), Den(a))
         IN  Q((a[1] \div g1) * (b[1] \div g2), (Den(a) \div g2) * (Den(b) \div g1))

\* 1.0 / a: the reciprocal of a zero is the infinity of the zero's sign
FRecip(a) ==
    IF IsNaN(a) THEN NaN
    ELSE IF IsInf(a) THEN Zero
    ELSE IF IsZero(a) THEN (IF a[2] < 0 THEN NInf ELSE PInf)
    ELSE Q(a[2], a[1])

FDiv(a, b) ==
    IF IsZero(b) /\ IsFin(a) /\ ~IsZero(a)
    THEN <<Sign(a[1]) * (IF b[2] < 0 THEN -1 ELSE 1), 0>>
    ELSE FMul(a, FRecip(b))

\* the comparisons of f32: every comparison with a NaN is false
FLt(a, b) ==
    /\ ~IsNaN(a)
    /\ ~IsNaN(b)
    /\ IF IsInf(a) \/ IsInf(b)
       THEN (IF IsInf(a) /\ IsInf(b) THEN a[1] < b[1]
             ELSE IF IsInf(a) THEN a[1] < 0
             ELSE b[1] > 0)
       ELSE a[1] * Den(b) < b[1] * Den(a)

FEq(a, b) ==
    /\ ~IsNaN(a)
    /\ ~IsNaN(b)
    /\ IF IsInf(a) \/ IsInf(b) THEN a = b
       ELSE a[1] * Den(b) = b[1] * Den(a)

FGt(a, b) == FLt(b, a)

FLe(a, b) == FLt(a, b) \/ FEq(a, b)

FGe(a, b) == FLe(b, a)

FAbs(a) == IF IsNaN(a) THEN NaN ELSE IF IsZero(a) THEN Zero ELSE <<Abs(a[1]), a[2]>>

\* f32::min and f32::max: a NaN argument is ignored
FMin(a, b) == IF IsNaN(a) THEN b ELSE IF IsNaN(b) THEN a ELSE IF FLt(b, a) THEN b ELSE a

FMax(a, b) == IF IsNaN(a) THEN b ELSE IF IsNaN(b) THEN a ELSE IF FLt(a, b) THEN b ELSE a

(***************************************************************************)
(* Vec3                                                                    *)
(***************************************************************************)
Vec3(x, y, z) == <<Q(x, 1), Q(y, 1), Q(z, 1)>>

VAdd(u, v) == [i \in 1..3 |-> FAdd(u[i], v[i])]

VSub(u, v) == [i \in 1..3 |-> FSub(u[i], v[i])]

VNeg(u) == [i \in 1..3 |-> FNeg(u[i])]

VScale(u, t) == [i \in 1..3 |-> FMul(u[i], t)]

Dot(u, v) == FAdd(FAdd(FMul(u[1], v[1]), FMul(u[2], v[2])), FMul(u[3], v[3]))

ComponentDiv(u, v) == [i \in 1..3 |-> FDiv(u[i], v[i])]

ComponentMul(u, v) == [i \in 1..3 |-> FMul(u[i], v[i])]

\* Matrix::max and Matrix::min of nalgebra: a left fold with
\* `if a >= b { a } else { b }` and `if a <= b { a } else { b }`
VecMax(u) ==
    LET m(a, b) == IF FGe(a, b) THEN a ELSE b
    IN  m(m(u[1], u[2]), u[3])

VecMin(u) ==
    LET m(a, b) == IF FLe(a, b) THEN a ELSE b
    IN  m(m(u[1], u[2]), u[3])

(***************************************************************************)
(* Material, Color, Intersect                                              *)
(***************************************************************************)
\* Material::new(diffuse, specular, albedo, refractive_index); the albedo
\* weights are kept in tenths
\* Color::new: the channels, and the shading terms a shaded colour is the sum
\* of (none for a plain colour)
ColorNew(r, g, b) == [rgb |-> <<r, g, b>>, lit |-> <<>>]

Material(diffuse, specular, albedo, refractive_index) ==
    [diffuse |-> diffuse, specular |-> specular, albedo |-> albedo,
     refractive_index |-> refractive_index]

agua == Material(ColorNew(0, 0, 255), 50, <<5, 5, 0, 0>>, 1)

tronco == Material(ColorNew(139, 69, 19), 50, <<8, 2, 0, 0>>, 1)

hojas == Material(ColorNew(0, 255, 0), 50, <<8, 2, 0, 0>>, 1)

plane_material == Material(ColorNew(34, 139, 34), 50, <<10, 0, 0, 0>>, 1)

day_material == Material(ColorNew(135, 206, 235), 50, <<10, 0, 0, 0>>, 1)

night_material == Material(ColorNew(10, 10, 30), 50, <<10, 0, 0, 0>>, 1)

\* Intersect::new
IntersectNew(point, normal, distance, material) ==
    [is_intersecting |-> TRUE, point |-> point, normal |-> normal,
     distance |-> distance, material |-> material]

\* Intersect::empty: the flag is false and the other fields are zeroed
IntersectEmpty ==
    [is_intersecting |-> FALSE, point |-> Vec3(0, 0, 0), normal |-> Vec3(0, 0, 0),
     distance |-> Zero, material |-> Material(ColorNew(0, 0, 0), 0, <<0, 0, 0, 0>>, 0)]

(***************************************************************************)
(* Cube (src/src/cube.rs)                                                  *)
(***************************************************************************)
\* Cube::new
Cube(center, size, material) ==
    [center |-> center, size |-> size, material |-> material]

\* the tolerance `bias` of compute_normal, 0.001
Bias == Q(1, 1000)

HalfSize(cube) == FDiv(cube.size, Two)

\* a compute_normal that tests the y faces before the x faces
ComputeNormalYFirst(cube, point) ==
    LET local_point == VSub(point, cube.center)
        half == FDiv(cube.size, Two)
    IN  IF FLt(FAbs(FSub(local_point[2], half)), Q(1, 1000)) THEN Vec3(0, 1, 0)
        ELSE IF FLt(FAbs(FAdd(local_point[2], half)), Q(1, 1000)) THEN Vec3(0, -1, 0)
        ELSE IF FLt(FAbs(FSub(local_point[1], half)), Q(1, 1000)) THEN Vec3(1, 0, 0)
        ELSE IF FLt(FAbs(FAdd(local_point[1], half)), Q(1, 1000)) THEN Vec3(-1, 0, 0)
        ELSE IF FLt(FAbs(FSub(local_point[3], half)), Q(1, 1000)) THEN Vec3(0, 0, 1)
        ELSE Vec3(0, 0, -1)

\* Cube::compute_normal
ComputeNormal(cube, point) ==
    LET local_point == VSub(point, cube.center)
        half == HalfSize(cube)
    IN  IF FLt(FAbs(FSub(local_point[1], half)), Bias) THEN Vec3(1, 0, 0)
        ELSE IF FLt(FAbs(FAdd(local_point[1], half)), Bias) THEN Vec3(-1, 0, 0)
        ELSE IF FLt(FAbs(FSub(local_point[2], half)), Bias) THEN Vec3(0, 1, 0)
        ELSE IF FLt(FAbs(FAdd(local_point[2], half)), Bias) THEN Vec3(0, -1, 0)
        ELSE IF FLt(FAbs(FSub(local_point[3], half)), Bias) THEN Vec3(0, 0, 1)
        ELSE Vec3(0, 0, -1)

\* the corners `min` and `max` of the box
BoxMin(cube) == VSub(cube.center, <<HalfSize(cube), HalfSize(cube), HalfSize(cube)>>)

BoxMax(cube) == VAdd(cube.center, <<HalfSize(cube), HalfSize(cube), HalfSize(cube)>>)

\* t1 and t2: the per-axis entry and exit parameters of the slab method
SlabT1(cube, origin, direction) ==
    LET inv_dir == ComponentDiv(<<One, One, One>>, direction)
        t_min == ComponentMul(VSub(BoxMin(cube), origin), inv_dir)
        t_max == ComponentMul(VSub(BoxMax(cube), origin), inv_dir)
    IN  [i \in 1..3 |-> FMin(t_min[i], t_max[i])]

SlabT2(cube, origin, direction) ==
    LET inv_dir == ComponentDiv(<<One, One, One>>, direction)
        t_min == ComponentMul(VSub(BoxMin(cube), origin), inv_dir)
        t_max == ComponentMul(VSub(BoxMax(cube), origin), inv_dir)
    IN  [i \in 1..3 |-> FMax(t_min[i], t_max[i])]

\* a slab test that forgets the boxes behind the ray origin
SlabMissesAhead(t_near, t_far) == FGt(t_near, t_far)

\* the test `t_near > t_far || t_far < 0.0`
SlabMisses(t_near, t_far) == FGt(t_near, t_far) \/ FLt(t_far, Zero)

\* Cube::ray_intersect
CubeRayIntersect(cube, origin, direction) ==
    LET t_near == VecMax(SlabT1(cube, origin, direction))
        t_far == VecMin(SlabT2(cube, origin, direction))
    IN  IF SlabMisses(t_near, t_far) THEN IntersectEmpty
        ELSE LET point == VAdd(origin, VScale(direction, t_near))
             IN  IntersectNew(point, ComputeNormal(cube, point), t_near, cube.material)

(***************************************************************************)
(* Plane (src/src/main.rs)                                                 *)
(***************************************************************************)
Plane(point, normal, material) ==
    [point |-> point, normal |-> normal, material |-> material]

\* the threshold 1e-6 on |denom|
Epsilon == Q(1, 1000000)

\* the clip `point.x.abs() <= 1.0 && point.z.abs() <= 1.0`
InTile(pl, point) == FLe(FAbs(point[1]), One) /\ FLe(FAbs(point[3]), One)

\* a plane that returns its stored normal whichever side is hit
FacingNormalStored(denom, normal) == normal

\* `if denom < 0.0 { self.normal } else { -self.normal }`
FacingNormal(denom, normal) == IF FLt(denom, Zero) THEN normal ELSE VNeg(normal)

\* Plane::ray_intersect
PlaneRayIntersect(pl, origin, direction) ==
    LET denom == Dot(pl.normal, direction)
        p0l0 == VSub(pl.point, origin)
        t == FDiv(Dot(p0l0, pl.normal), denom)
        point == VAdd(origin, VScale(direction, t))
    IN  IF FGt(FAbs(denom), Epsilon) /\ FGe(t, Zero) /\ InTile(pl, point)
        THEN IntersectNew(point, FacingNormal(denom, pl.normal), t, pl.material)
        ELSE IntersectEmpty

\* the RayIntersect trait: Plane and Cube implement ray_intersect
RayIntersect(object, origin, direction) ==
    IF "center" \in DOMAIN object
    THEN CubeRayIntersect(object, origin, direction)
    ELSE PlaneRayIntersect(object, origin, direction)

(***************************************************************************)
(* Skybox and Light (src/src/main.rs)                                      *)
(***************************************************************************)
\* Skybox::new
SkyboxNew(day, night) ==
    [day_material |-> day, night_material |-> night, current_material |-> day]

\* a sample that reads the day preset whatever is selected
SkyboxSampleDay(sb, direction) == sb.day_material.diffuse

\* Skybox::sample
SkyboxSample(sb, direction) == sb.current_material.diffuse

\* Skybox::set_day
SkyboxSetDay(sb) == [sb EXCEPT !.current_material = sb.day_material]

\* a set_night that selects the day preset
SkyboxSetNightToDay(sb) == [sb EXCEPT !.current_material = sb.day_material]

\* Skybox::set_night
SkyboxSetNight(sb) == [sb EXCEPT !.current_material = sb.night_material]

\* load_skybox
LoadSkybox == SkyboxNew(day_material, night_material)

\* Light::new
LightNew(position, color, intensity) ==
    [position |-> position, color |-> color, intensity |-> intensity]

\* the light main sets up, and restores on key D
DayLight == LightNew(Vec3(5, 5, 5), ColorNew(255, 255, 255), Q(1, 1))

\* the light main sets on key N
NightLight == LightNew(Vec3(1, 1, 1), ColorNew(20, 20, 50), Q(5, 100))

(***************************************************************************)
(* cast_ray (src/src/main.rs)                                              *)
(***************************************************************************)
\* diffuse + specular + ambient of a hit: normalize and powf have no exact
\* value here, so the sum is kept as the term of everything it is computed
\* from (light.intensity is not read)
Shade(hit, origin, li) ==
    [rgb |-> <<0, 0, 0>>,
     lit |-> <<[point |-> hit.point, normal |-> hit.normal, material |-> hit.material,
                light_position |-> li.position, light_color |-> li.color,
                ray_origin |-> origin]>>]

\* cast_ray from line 35 on, given what object.ray_intersect returned
CastRayOn(hit, origin, direction, li, sb) ==
    IF ~hit.is_intersecting THEN SkyboxSample(sb, direction)
    ELSE Shade(hit, origin, li)

\* cast_ray
CastRay(origin, direction, object, li, sb) ==
    CastRayOn(RayIntersect(object, origin, direction), origin, direction, li, sb)

(***************************************************************************)
(* Bounds of the model                                                     *)
(***************************************************************************)
\* the framebuffer is FbWidth x FbHeight pixels
FbWidth == 2

FbHeight == 1

\* render is handed at most MaxCubes cubes
MaxCubes == 2

\* ray origins of the direct calls have coordinates up to MaxCoord (and 5)
MaxCoord == 2

\* cubes of the direct calls have the sizes 1..MaxSize (and 0.001 and 12)
MaxSize == 2

(***************************************************************************)
(* Framebuffer and Color::to_hex                                           *)
(***************************************************************************)
Pixels == {<<x, y>> : x \in 0..(FbWidth - 1), y \in 0..(FbHeight - 1)}

Clamp255(c) == IF c < 0 THEN 0 ELSE IF c > 255 THEN 255 ELSE c

\* Color::to_hex: the channels clamped to 0..255 and packed into 24 bits; a
\* shaded colour packs to the value of its shading term
ToHex(color) ==
    [hex |-> Clamp255(color.rgb[1]) * 65536 + Clamp255(color.rgb[2]) * 256
                 + Clamp255(color.rgb[3]),
     lit |-> color.lit]

\* Framebuffer::new: every cell is 0
FramebufferNew == [p \in Pixels |-> ToHex(ColorNew(0, 0, 0))]

(***************************************************************************)
(* render (src/src/main.rs), one pixel at a time                           *)
(***************************************************************************)
\* the ray directions of the model: every component is -1, 0, -0.0 or 1, and
\* some component is not a zero
DirComponents == {Q(-1, 1), Zero, NegZero, One}

Directions ==
    {d \in DirComponents \X DirComponents \X DirComponents :
        \E i \in 1..3 : ~IsZero(d[i])}

\* render's rays in the model: a turn around the x axis in eighths, from
\* straight down
RaySweep ==
    <<Vec3(0, -1, 0), Vec3(0, -1, -1), Vec3(0, 0, -1), Vec3(0, 1, -1),
      Vec3(0, 1, 0), Vec3(0, 1, 1), Vec3(0, 0, 1), Vec3(0, -1, 1)>>

\* rotated_direction is a function of the pixel and of the camera, and render
\* leaves the camera alone: a camera of the model gives the pixels, in the
\* order render visits them, successive rays of the sweep, from any of them
CameraRays ==
    {[p \in Pixels |-> RaySweep[((first + p[2] * FbWidth + p[1]) % Len(RaySweep)) + 1]] :
        first \in 0..(Len(RaySweep) - 1)}

\* no ray: the direct calls do not read rays
NoRays == [p \in Pixels |-> Vec3(0, 0, -1)]

\* a scan that starts from the distance of the plane's hit
InitialNearestPlane(planeHit) ==
    IF planeHit.is_intersecting THEN planeHit.distance ELSE PInf

\* `let mut nearest_intersection = f32::INFINITY`
InitialNearest(planeHit) == PInf

\* a comparison that lets a later cube at the same distance win
IsNearerOrEqual(hit, nearest) == hit.is_intersecting /\ FLe(hit.distance, nearest)

\* `intersect.is_intersecting && intersect.distance < nearest_intersection`
IsNearer(hit, nearest) == hit.is_intersecting /\ FLt(hit.distance, nearest)

sceneVars == <<plane, cubes, light, skybox, ray_origin, rays>>

skyVars == <<sampled, last_call>>

mainVars == <<tiempo, is_day, cubos_agua, down, presented>>

\* no write yet in this scan
NoWrites == [p \in Pixels |-> 0]

\* main's own variables where main does not run
MainIdle ==
    /\ tiempo = Zero
    /\ is_day = TRUE
    /\ cubos_agua = <<>>
    /\ down = {}
    /\ writes = NoWrites
    /\ presented = FramebufferNew

\* lines 69-86: the pixel's ray, the plane's colour or the sky's, and the
\* start of the scan of the cubes
RenderPixel ==
    /\ pc = "pixel"
    /\ LET d == rays[<<px, py>>]
           planeHit == PlaneRayIntersect(plane, ray_origin, d)
       IN  /\ ray_direction' = d
           /\ pixel_color' =
                  IF planeHit.is_intersecting
                  THEN CastRay(ray_origin, d, plane, light, skybox)
                  ELSE SkyboxSample(skybox, d)
           /\ nearest_intersection' = InitialNearest(planeHit)
    /\ idx' = 1
    /\ pc' = "scan"
    /\ UNCHANGED <<sceneVars, skyVars, mainVars, writes, intersect, px, py, framebuffer>>

\* lines 87-93: one iteration of `for cube in cubes`
ScanCube ==
    /\ pc = "scan"
    /\ idx <= Len(cubes)
    /\ LET hit == CubeRayIntersect(cubes[idx], ray_origin, ray_direction)
       IN  /\ intersect' = hit
           /\ IF IsNearer(hit, nearest_intersection)
              THEN /\ nearest_intersection' = hit.distance
                   /\ pixel_color' =
                          CastRay(ray_origin, ray_direction, cubes[idx], light, skybox)
              ELSE UNCHANGED <<nearest_intersection, pixel_color>>
    /\ idx' = idx + 1
    /\ UNCHANGED <<pc, sceneVars, skyVars, mainVars, writes, ray_direction, px, py, framebuffer>>

\* lines 95-96: the scan is over, the pixel is written
PlotPixel ==
    /\ pc = "scan"
    /\ idx > Len(cubes)
    /\ framebuffer' = [framebuffer EXCEPT ![<<px, py>>] = ToHex(pixel_color)]
    /\ writes' = [writes EXCEPT ![<<px, py>>] = @ + 1]
    /\ pc' = "plotted"
    /\ UNCHANGED <<sceneVars, skyVars, mainVars, ray_direction, intersect, pixel_color,
                   nearest_intersection, idx, px, py>>

\* lines 67-68: the next x, the next y, or the end of render
NextPixel ==
    /\ pc = "plotted"
    /\ IF px + 1 < FbWidth
       THEN /\ px' = px + 1
            /\ UNCHANGED py
            /\ pc' = "pixel"
       ELSE IF py + 1 < FbHeight
       THEN /\ px' = 0
            /\ py' = py + 1
            /\ pc' = "pixel"
       ELSE /\ pc' = "rendered"
            /\ UNCHANGED <<px, py>>
    /\ UNCHANGED <<sceneVars, skyVars, mainVars, writes, ray_direction, intersect, pixel_color,
                   nearest_intersection, idx, framebuffer>>

\* the plane of main
ReferencePlane == Plane(Vec3(0, 0, 0), Vec3(0, 1, 0), plane_material)

\* the cubes render is handed in the model: two of different materials at one
\* place under the plane, and one across the plane
SceneCubes ==
    {Cube(Vec3(0, -1, 0), Q(1, 10), agua),
     Cube(Vec3(0, -1, 0), Q(1, 10), tronco),
     Cube(Vec3(0, 0, 0), Q(1, 10), hojas)}

\* the lists of at most MaxCubes different cubes
CubeLists ==
    {l \in UNION {[1..n -> SceneCubes] : n \in 0..MaxCubes} :
        \A i, j \in DOMAIN l : i # j => l[i] # l[j]}

\* camera.eye in the model
Eyes == {Vec3(0, 5, 0), Vec3(0, 3, 3)}

\* the states of day and night main switches between
DayNight ==
    {<<LoadSkybox, DayLight>>, <<SkyboxSetNight(LoadSkybox), NightLight>>}

InitRender ==
    /\ pc = "pixel"
    /\ plane = ReferencePlane
    /\ cubes \in CubeLists
    /\ \E dn \in DayNight : skybox = dn[1] /\ light = dn[2]
    /\ ray_origin \in Eyes
    /\ rays \in CameraRays
    /\ ray_direction = Vec3(0, 0, -1)
    /\ intersect = IntersectEmpty
    /\ pixel_color = ColorNew(0, 0, 0)
    /\ nearest_intersection = PInf
    /\ idx = 1
    /\ px = 0
    /\ py = 0
    /\ framebuffer = FramebufferNew
    /\ sampled = ColorNew(0, 0, 0)
    /\ last_call = "new"
    /\ MainIdle

NextRender == RenderPixel \/ ScanCube \/ PlotPixel \/ NextPixel

SpecRender == InitRender /\ [][NextRender]_vars

(***************************************************************************)
(* Cube::ray_intersect called on its own                                   *)
(***************************************************************************)
CubeCenters == {Vec3(0, 0, 0), Vec3(1, 0, -1)}

CubeSizes == {Q(1, 1000), Q(12, 1)} \cup {Q(k, 1) : k \in 1..MaxSize}

OriginCoords == (0..MaxCoord) \cup {5}

Origins == {Vec3(x, y, z) : x \in OriginCoords, y \in {0, MaxCoord}, z \in OriginCoords}

InitCube ==
    /\ pc = "cube_call"
    /\ plane = ReferencePlane
    /\ \E c \in CubeCenters, sz \in CubeSizes : cubes = <<Cube(c, sz, agua)>>
    /\ light = DayLight
    /\ skybox = LoadSkybox
    /\ ray_origin \in Origins
    /\ rays = NoRays
    /\ ray_direction \in Directions
    /\ intersect = IntersectEmpty
    /\ pixel_color = ColorNew(0, 0, 0)
    /\ nearest_intersection = PInf
    /\ idx = 1
    /\ px = 0
    /\ py = 0
    /\ framebuffer = FramebufferNew
    /\ sampled = ColorNew(0, 0, 0)
    /\ last_call = "new"
    /\ MainIdle

\* cubes[1].ray_intersect(&ray_origin, &ray_direction)
CubeCall ==
    /\ pc = "cube_call"
    /\ intersect' = CubeRayIntersect(cubes[1], ray_origin, ray_direction)
    /\ pc' = "cube_done"
    /\ UNCHANGED <<sceneVars, skyVars, mainVars, writes, ray_direction, pixel_color,
                   nearest_intersection, idx, px, py, framebuffer>>

SpecCube == InitCube /\ [][CubeCall]_vars

(***************************************************************************)
(* Plane::ray_intersect called on its own                                  *)
(***************************************************************************)
PlanePoints == {Vec3(0, 0, 0), Vec3(3, 0, 0), Vec3(0, 1, 0)}

PlaneNormals == {Vec3(0, 1, 0), Vec3(0, -1, 0)}

PlaneOrigins == {Vec3(x, y, 0) : x \in 0..MaxCoord, y \in (-MaxCoord)..MaxCoord}

\* a component so small that |denom| <= 1e-6
Tiny == Q(1, 2000000)

PlaneDirComponents == {Q(-1, 1), FNeg(Tiny), Zero, Tiny, One}

PlaneDirections ==
    {d \in PlaneDirComponents \X PlaneDirComponents \X PlaneDirComponents :
        \E i \in 1..3 : ~IsZero(d[i])}

InitPlane ==
    /\ pc = "plane_call"
    /\ \E p \in PlanePoints, n \in PlaneNormals : plane = Plane(p, n, plane_material)
    /\ cubes = <<>>
    /\ light = DayLight
    /\ skybox = LoadSkybox
    /\ ray_origin \in PlaneOrigins
    /\ rays = NoRays
    /\ ray_direction \in PlaneDirections
    /\ intersect = IntersectEmpty
    /\ pixel_color = ColorNew(0, 0, 0)
    /\ nearest_intersection = PInf
    /\ idx = 1
    /\ px = 0
    /\ py = 0
    /\ framebuffer = FramebufferNew
    /\ sampled = ColorNew(0, 0, 0)
    /\ last_call = "new"
    /\ MainIdle

\* plane.ray_intersect(&ray_origin, &ray_direction)
PlaneCall ==
    /\ pc = "plane_call"
    /\ intersect' = PlaneRayIntersect(plane, ray_origin, ray_direction)
    /\ pc' = "plane_done"
    /\ UNCHANGED <<sceneVars, skyVars, mainVars, writes, ray_direction, pixel_color,
                   nearest_intersection, idx, px, py, framebuffer>>

SpecPlane == InitPlane /\ [][PlaneCall]_vars

(***************************************************************************)
(* Skybox: new, then set_day, set_night and sample in any order            *)
(***************************************************************************)
SkyMaterials == {day_material, night_material, plane_material}

InitSkybox ==
    /\ pc = "sky"
    /\ plane = ReferencePlane
    /\ cubes = <<>>
    /\ light = DayLight
    /\ \E d \in SkyMaterials, n \in SkyMaterials : skybox = SkyboxNew(d, n)
    /\ ray_origin = Vec3(0, 0, 0)
    /\ rays = NoRays
    /\ ray_direction = Vec3(0, 0, -1)
    /\ intersect = IntersectEmpty
    /\ pixel_color = ColorNew(0, 0, 0)
    /\ nearest_intersection = PInf
    /\ idx = 1
    /\ px = 0
    /\ py = 0
    /\ framebuffer = FramebufferNew
    /\ sampled = ColorNew(0, 0, 0)
    /\ last_call = "new"
    /\ MainIdle

renderVars ==
    <<plane, cubes, light, ray_origin, rays, intersect, pixel_color, nearest_intersection,
      idx, px, py, framebuffer>>

\* skybox.set_day()
SetDay ==
    /\ pc \in {"sky", "sampled"}
    /\ skybox' = SkyboxSetDay(skybox)
    /\ last_call' = "set_day"
    /\ pc' = "sky"
    /\ UNCHANGED <<renderVars, mainVars, writes, ray_direction, sampled>>

\* skybox.set_night()
SetNight ==
    /\ pc \in {"sky", "sampled"}
    /\ skybox' = SkyboxSetNight(skybox)
    /\ last_call' = "set_night"
    /\ pc' = "sky"
    /\ UNCHANGED <<renderVars, mainVars, writes, ray_direction, sampled>>

\* skybox.sample(d): takes &self, so the skybox is as it was
Sample ==
    /\ pc \in {"sky", "sampled"}
    /\ \E d \in Directions :
        /\ ray_direction' = d
        /\ sampled' = SkyboxSample(skybox, d)
    /\ pc' = "sampled"
    /\ UNCHANGED <<renderVars, mainVars, writes, skybox, last_call>>

NextSkybox == SetDay \/ SetNight \/ Sample

SpecSkybox == InitSkybox /\ [][NextSkybox]_vars

(***************************************************************************)
(* main (src/src/main.rs): the frame loop                                  *)
(***************************************************************************)
\* the loop runs at most MaxFrames frames
MaxFrames == 2

\* the first MaxWater of main's cubos_agua and the first MaxStatic of main's
\* cubes are kept
MaxWater == 2

MaxStatic == 1

\* f32::sin at 0.5, 1.0, .. 6.0, in thousandths: sin has no rational value,
\* three decimals of it are kept
SinMilli == <<479, 841, 997, 909, 598, 141, -351, -757, -978, -959, -706, -279>>

Sin(a) == IF IsZero(a) THEN Zero ELSE Q(SinMilli[(2 * a[1]) \div a[2]], 1000)

\* main's cubos_agua as constructed
MainWater ==
    SubSeq(<<Cube(<<Zero, Zero, Zero>>, Q(1, 10), agua),
             Cube(<<Q(-1, 10), Zero, Zero>>, Q(1, 10), agua),
             Cube(<<Q(-1, 10), Zero, Q(1, 10)>>, Q(1, 10), agua),
             Cube(<<Zero, Zero, Q(1, 10)>>, Q(1, 10), agua)>>, 1, MaxWater)

\* main's cubes
MainCubes ==
    SubSeq(<<Cube(<<Q(-8, 10), Q(1, 10), Q(-8, 10)>>, Q(1, 10), tronco),
             Cube(<<Q(-8, 10), Q(2, 10), Q(-8, 10)>>, Q(1, 10), tronco),
             Cube(<<Q(-8, 10), Q(3, 10), Q(-8, 10)>>, Q(1, 10), tronco)>>, 1, MaxStatic)

\* an update that moves the first water cube only
AnimateFirstWater(water, t) ==
    [i \in DOMAIN water |->
        IF i = 1
        THEN [water[i] EXCEPT !.center[2] = FAdd(Zero, FMul(Sin(t), Q(5, 100)))]
        ELSE water[i]]

\* lines 518-522: cubo.center.y = 0.0 + (tiempo + i as f32).sin() * 0.05, for
\* every cubo of the list
AnimateWater(water, t) ==
    [i \in DOMAIN water |->
        [water[i] EXCEPT !.center[2] =
            FAdd(Zero, FMul(Sin(FAdd(t, Q(i - 1, 1))), Q(5, 100)))]]

\* what the keys D and N act on
DayState(day, sb, li) == [is_day |-> day, skybox |-> sb, light |-> li]

\* lines 543-549: key D
KeyD(s) ==
    DayState(TRUE, SkyboxSetDay(s.skybox),
             [s.light EXCEPT !.position = Vec3(5, 5, 5),
                             !.color = ColorNew(255, 255, 255),
                             !.intensity = Q(1, 1)])

\* a key N that leaves the skybox alone
KeyNLightOnly(s) ==
    DayState(FALSE, s.skybox,
             [s.light EXCEPT !.position = Vec3(1, 1, 1),
                             !.color = ColorNew(20, 20, 50),
                             !.intensity = Q(5, 100)])

\* lines 550-556: key N
KeyN(s) ==
    DayState(FALSE, SkyboxSetNight(s.skybox),
             [s.light EXCEPT !.position = Vec3(1, 1, 1),
                             !.color = ColorNew(20, 20, 50),
                             !.intensity = Q(5, 100)])

\* lines 543-556: `if D {..}` and then `if N {..}`
DayNightKeys(s, d, n) ==
    LET afterD == IF d THEN KeyD(s) ELSE s
    IN  IF n THEN KeyN(afterD) ELSE afterD

\* the keys that orbit and zoom the camera
CameraKeys == {"Left", "Right", "Up", "Down", "W", "S"}

\* the camera main constructs, and the cameras orbit and zoom lead to in the
\* model: an eye and the rays of the pixels
MainCamera ==
    <<Vec3(0, 3, 5), CHOOSE r \in CameraRays : r[<<0, 0>>] = Vec3(0, -1, -1)>>

LoopCameras ==
    {MainCamera,
     <<Vec3(0, 5, 0), CHOOSE r \in CameraRays : r[<<0, 0>>] = Vec3(0, -1, 0)>>,
     <<Vec3(0, 3, 3), CHOOSE r \in CameraRays : r[<<0, 0>>] = Vec3(0, -1, -1)>>}

scanVars == <<ray_direction, intersect, pixel_color, nearest_intersection, idx, px, py>>

\* the state after the set-up of main, lines 187-514
Init ==
    /\ pc = "loop"
    /\ plane = ReferencePlane
    /\ cubes = <<>>
    /\ light = DayLight
    /\ skybox = LoadSkybox
    /\ ray_origin = MainCamera[1]
    /\ rays = MainCamera[2]
    /\ ray_direction = Vec3(0, 0, -1)
    /\ intersect = IntersectEmpty
    /\ pixel_color = ColorNew(0, 0, 0)
    /\ nearest_intersection = PInf
    /\ idx = 1
    /\ px = 0
    /\ py = 0
    /\ framebuffer = FramebufferNew
    /\ sampled = ColorNew(0, 0, 0)
    /\ last_call = "new"
    /\ tiempo = Zero
    /\ is_day = TRUE
    /\ cubos_agua = MainWater
    /\ down = {}
    /\ writes = NoWrites
    /\ presented = FramebufferNew

\* line 516: `while window.is_open() && !window.is_key_down(Key::Escape)`
LoopTest ==
    /\ pc = "loop"
    /\ \E open \in BOOLEAN, escape \in BOOLEAN :
        IF open /\ ~escape
        THEN /\ FLt(tiempo, Q(MaxFrames, 2))
             /\ pc' = "animate"
        ELSE pc' = "exited"
    /\ UNCHANGED <<sceneVars, skyVars, mainVars, scanVars, writes, framebuffer>>

\* lines 518-522: the time advances and the water cubes move
Animate ==
    /\ pc = "animate"
    /\ tiempo' = FAdd(tiempo, Q(1, 2))
    /\ cubos_agua' = AnimateWater(cubos_agua, tiempo')
    /\ pc' = "keys"
    /\ UNCHANGED <<sceneVars, skyVars, scanVars, is_day, down, presented, writes,
                   framebuffer>>

\* lines 525-556: the keys.  Each is_key_down answers anything; orbit and zoom
\* (camera.rs) lead to some camera of the model
HandleKeys ==
    /\ pc = "keys"
    /\ \E cam \in SUBSET CameraKeys :
        IF cam = {}
        THEN UNCHANGED <<ray_origin, rays>>
        ELSE \E c \in LoopCameras : ray_origin' = c[1] /\ rays' = c[2]
    /\ \E d \in BOOLEAN, n \in BOOLEAN :
        LET s == DayNightKeys(DayState(is_day, skybox, light), d, n)
        IN  /\ is_day' = s.is_day
            /\ skybox' = s.skybox
            /\ light' = s.light
            /\ down' = {k \in {"D", "N"} : (k = "D" /\ d) \/ (k = "N" /\ n)}
    /\ pc' = "compose"
    /\ UNCHANGED <<plane, cubes, skyVars, scanVars, tiempo, cubos_agua, presented,
                   writes, framebuffer>>

\* lines 559-562: todos_los_cubos is cubes followed by cubos_agua, and render
\* is called
Compose ==
    /\ pc = "compose"
    /\ cubes' = MainCubes \o cubos_agua
    /\ px' = 0
    /\ py' = 0
    /\ writes' = NoWrites
    /\ pc' = "pixel"
    /\ UNCHANGED <<plane, light, skybox, ray_origin, rays, skyVars, mainVars,
                   ray_direction, intersect, pixel_color, nearest_intersection, idx,
                   framebuffer>>

\* lines 564-566: window.update_with_buffer(&framebuffer.buffer, ..)
Present ==
    /\ pc = "rendered"
    /\ presented' = framebuffer
    /\ pc' = "sleep"
    /\ UNCHANGED <<sceneVars, skyVars, scanVars, tiempo, is_day, cubos_agua, down,
                   writes, framebuffer>>

\* line 568: std::thread::sleep(frame_delay)
Sleep ==
    /\ pc = "sleep"
    /\ pc' = "loop"
    /\ UNCHANGED <<sceneVars, skyVars, mainVars, scanVars, writes, framebuffer>>

Next ==
    \/ LoopTest
    \/ Animate
    \/ HandleKeys
    \/ Compose
    \/ RenderPixel
    \/ ScanCube
    \/ PlotPixel
    \/ NextPixel
    \/ Present
    \/ Sleep

Spec == Init /\ [][Next]_vars

(***************************************************************************)
(* What the claims are stated with: the box and the ray as geometry        *)
(***************************************************************************)
Axes == 1..3

TheCube == cubes[1]

\* the face planes of the box on axis i, computed with exact halves
BoxLo(cube, i) == FSub(cube.center[i], FMul(cube.size, Q(1, 2)))

BoxHi(cube, i) == FAdd(cube.center[i], FMul(cube.size, Q(1, 2)))

\* the per-axis entry and exit parameters: on an axis the ray moves along,
\* the parameters at which it crosses the two face planes, in the order it
\* crosses them; on an axis it does not move along, -infinity and +infinity
\* when the origin is strictly between the face planes, and otherwise the
\* one infinity (0 * infinity, a NaN, is dropped by f32::min and f32::max)
AxisEntry(cube, origin, direction, i) ==
    LET o == origin[i]
        d == direction[i]
        zs == IF d[2] < 0 THEN -1 ELSE 1
    IN  IF IsZero(d)
        THEN IF FLt(BoxLo(cube, i), o) /\ FLt(o, BoxHi(cube, i)) THEN NInf
             ELSE IF FLe(o, BoxLo(cube, i)) THEN <<zs, 0>> ELSE <<-zs, 0>>
        ELSE IF FGt(d, Zero) THEN FDiv(FSub(BoxLo(cube, i), o), d)
        ELSE FDiv(FSub(BoxHi(cube, i), o), d)

AxisExit(cube, origin, direction, i) ==
    LET o == origin[i]
        d == direction[i]
        zs == IF d[2] < 0 THEN -1 ELSE 1
    IN  IF IsZero(d)
        THEN IF FLt(BoxLo(cube, i), o) /\ FLt(o, BoxHi(cube, i)) THEN PInf
             ELSE IF FLe(o, BoxLo(cube, i)) THEN <<zs, 0>> ELSE <<-zs, 0>>
        ELSE IF FGt(d, Zero) THEN FDiv(FSub(BoxHi(cube, i), o), d)
        ELSE FDiv(FSub(BoxLo(cube, i), o), d)

Greatest(S) == CHOOSE x \in S : \A y \in S : FLe(y, x)

Least(S) == CHOOSE x \in S : \A y \in S : FLe(x, y)

TNear(cube, origin, direction) ==
    Greatest({AxisEntry(cube, origin, direction, i) : i \in Axes})

TFar(cube, origin, direction) ==
    Least({AxisExit(cube, origin, direction, i) : i \in Axes})

PointAt(origin, direction, t) == VAdd(origin, VScale(direction, t))

InBox(cube, p) ==
    \A i \in Axes : FLe(BoxLo(cube, i), p[i]) /\ FLe(p[i], BoxHi(cube, i))

\* the parameters at which the line of the ray crosses a face plane
Crossings(cube, origin, direction) ==
    UNION {{FDiv(FSub(BoxLo(cube, i), origin[i]), direction[i]),
            FDiv(FSub(BoxHi(cube, i), origin[i]), direction[i])} :
              i \in {j \in Axes : ~IsZero(direction[j])}}

\* some point of the ray (t >= 0) lies in the closed box: if any does, one of
\* them is the origin or a crossing of a face plane
RayMeetsBox(cube, origin, direction) ==
    \E t \in Crossings(cube, origin, direction) \cup {Zero} :
        FGe(t, Zero) /\ InBox(cube, PointAt(origin, direction, t))

\* some point of the line of the ray lies in the closed box
LineMeetsBox(cube, origin, direction) ==
    \E t \in Crossings(cube, origin, direction) :
        InBox(cube, PointAt(origin, direction, t))

(***************************************************************************)
(* C4                                                                      *)
(***************************************************************************)
\* C4: Cube::ray_intersect returns the empty Intersect exactly when
\* t_near > t_far or t_far < 0, t_near being the greatest per-axis entry
\* parameter and t_far the least per-axis exit parameter of the box; every
\* other result is a hit with distance t_near at origin + direction * t_near;
\* and a ray none of whose points lies in the box gets the empty Intersect.
C4_EmptyExactlyOnSlabMiss ==
    pc = "cube_done" =>
        LET tn == TNear(TheCube, ray_origin, ray_direction)
            tf == TFar(TheCube, ray_origin, ray_direction)
        IN  /\ (intersect = IntersectEmpty) <=> (FGt(tn, tf) \/ FLt(tf, Zero))
            /\ intersect # IntersectEmpty =>
                   /\ intersect.is_intersecting
                   /\ intersect.distance = tn
                   /\ intersect.point = PointAt(ray_origin, ray_direction, tn)
            /\ ~RayMeetsBox(TheCube, ray_origin, ray_direction) =>
                   ~intersect.is_intersecting

\* C4's case: the line of the ray passes through the box, the box lies behind
\* the origin (t_far < 0), and the call returned the empty Intersect
C4_Witness ==
    /\ pc = "cube_done"
    /\ LineMeetsBox(TheCube, ray_origin, ray_direction)
    /\ FLt(TFar(TheCube, ray_origin, ray_direction), Zero)
    /\ intersect = IntersectEmpty

(***************************************************************************)
(* C5                                                                      *)
(***************************************************************************)
\* C5: for a cube centred at the origin, of any size s > 0, the ray from
\* (0,0,5) towards (0,0,-1) is a hit with distance 5 - s/2, hit point
\* (0,0,s/2) and normal (0,0,1).
C5_AxisRayHitsFrontFace ==
    (/\ pc = "cube_done"
     /\ TheCube.center = Vec3(0, 0, 0)
     /\ ray_origin = Vec3(0, 0, 5)
     /\ ray_direction = Vec3(0, 0, -1)) =>
        /\ intersect.is_intersecting
        /\ intersect.distance = FSub(Q(5, 1), FMul(TheCube.size, Q(1, 2)))
        /\ intersect.point = <<Zero, Zero, FMul(TheCube.size, Q(1, 2))>>
        /\ intersect.normal = Vec3(0, 0, 1)

(***************************************************************************)
(* C6                                                                      *)
(***************************************************************************)
\* C6: for a ray direction with a zero component, Cube::ray_intersect returns
\* a well-defined result (no NaN in a hit) and the right decision: a hit
\* exactly when some point of the ray lies in the box, also when the origin
\* lies on a face plane of an axis the ray does not move along.
C6_ZeroComponentDecision ==
    (/\ pc = "cube_done"
     /\ \E i \in Axes : IsZero(ray_direction[i])) =>
        /\ intersect.is_intersecting =>
               /\ IsFin(intersect.distance)
               /\ \A i \in Axes : IsFin(intersect.point[i])
        /\ intersect.is_intersecting <=> RayMeetsBox(TheCube, ray_origin, ray_direction)

\* the origin lies on a face plane of an axis the ray does not move along
OnParallelFacePlane(cube, origin, direction) ==
    \E i \in Axes :
        /\ IsZero(direction[i])
        /\ FEq(origin[i], BoxLo(cube, i)) \/ FEq(origin[i], BoxHi(cube, i))

\* what does hold of the decision: it is the geometric one for every ray
\* whose origin is on no such face plane, and a miss for every ray whose
\* origin is on one
C6_DecisionOffTheFacePlanes ==
    pc = "cube_done" =>
        IF OnParallelFacePlane(TheCube, ray_origin, ray_direction)
        THEN ~intersect.is_intersecting
        ELSE intersect.is_intersecting <=> RayMeetsBox(TheCube, ray_origin, ray_direction)

(***************************************************************************)
(* C7                                                                      *)
(***************************************************************************)
\* the faces in their priority order: <<axis, side>>
FaceOrder == <<<<1, 1>>, <<1, -1>>, <<2, 1>>, <<2, -1>>, <<3, 1>>, <<3, -1>>>>

UnitVector(axis, side) == [i \in Axes |-> IF i = axis THEN Q(side, 1) ELSE Zero]

\* the centre-relative coordinate of p is within 0.001 of the face's plane
OnFace(cube, p, face) ==
    LET rel == FSub(p[face[1]], cube.center[face[1]])
        offset == FMul(Q(face[2], 2), cube.size)
    IN  FLt(FAbs(FSub(rel, offset)), Q(1, 1000))

\* the normal of the first face of FaceOrder that p is on, (0,0,-1) if none
FirstFaceNormal(cube, p) ==
    LET on == {k \in DOMAIN FaceOrder : OnFace(cube, p, FaceOrder[k])}
    IN  IF on = {} THEN Vec3(0, 0, -1)
        ELSE LET k == CHOOSE j \in on : \A m \in on : j <= m
             IN  UnitVector(FaceOrder[k][1], FaceOrder[k][2])

\* C7: on every cube hit the normal is that of the first face, in the order
\* +x, -x, +y, -y, +z, -z, whose plane the centre-relative hit point is within
\* 0.001 of, and (0,0,-1) if there is none; it is one of the six axis vectors.
C7_FirstMatchingFaceWins ==
    (pc = "cube_done" /\ intersect.is_intersecting) =>
        /\ intersect.normal = FirstFaceNormal(TheCube, intersect.point)
        /\ \E axis \in Axes, side \in {-1, 1} : intersect.normal = UnitVector(axis, side)

\* C7's case: a hit on an edge or corner shared by an x face and a y face,
\* with the normal of the x face
C7_Witness ==
    /\ pc = "cube_done"
    /\ intersect.is_intersecting
    /\ \E kx \in {1, 2}, ky \in {3, 4} :
        /\ OnFace(TheCube, intersect.point, FaceOrder[kx])
        /\ OnFace(TheCube, intersect.point, FaceOrder[ky])
    /\ intersect.normal[1] # Zero

(***************************************************************************)
(* C1, C2, C3: the pixel render writes                                     *)
(***************************************************************************)
\* what each cubes[k].ray_intersect returns for the pixel's ray
CubeHits == [k \in 1..Len(cubes) |-> CubeRayIntersect(cubes[k], ray_origin, ray_direction)]

\* the cubes among the first n of the list that the pixel's ray hits
HitCubes(hits, n) == {k \in 1..n : hits[k].is_intersecting}

\* the hit cube of smallest distance among the first n, the earliest of them
\* when several are at that distance
NearestCube(hits, n) ==
    CHOOSE k \in HitCubes(hits, n) :
        \A m \in HitCubes(hits, n) :
            \/ FLt(hits[k].distance, hits[m].distance)
            \/ FEq(hits[k].distance, hits[m].distance) /\ k <= m

CubeColor(k) == CastRay(ray_origin, ray_direction, cubes[k], light, skybox)

PlaneHit == PlaneRayIntersect(plane, ray_origin, ray_direction)

PlaneColor == CastRay(ray_origin, ray_direction, plane, light, skybox)

\* the cubes scanned so far for the current pixel
Scanned == IF pc = "plotted" THEN Len(cubes) ELSE idx - 1

C1_NearestSoFar ==
    pc \in {"scan", "plotted"} =>
        LET hits == CubeHits
        IN  HitCubes(hits, Scanned) # {} =>
                LET best == NearestCube(hits, Scanned)
                    color == CubeColor(best)
                IN  /\ pixel_color = color
                    /\ nearest_intersection = hits[best].distance
                    /\ pc = "plotted" => framebuffer[<<px, py>>] = ToHex(color)

C1_NeverIncreases ==
    (pc = "scan" /\ pc' \in {"scan", "plotted"}) =>
        FLe(nearest_intersection', nearest_intersection)

\* C1: when the pixel's ray hits a cube, the colour written is cast_ray's for
\* the hit cube of smallest distance, the earliest in the list among those at
\* that distance (so it is after every step of the scan, for the cubes scanned
\* so far), and nearest_intersection never increases during the scan.
C1_NearestCubeWins == []C1_NearestSoFar /\ [][C1_NeverIncreases]_vars

\* C1's case: a pixel is written whose ray hits two cubes at the same smallest
\* distance, of different colours, and the colour is the earlier one's
C1_Witness ==
    /\ pc = "plotted"
    /\ \E k, m \in HitCubes(CubeHits, Len(cubes)) :
        /\ k < m
        /\ k = NearestCube(CubeHits, Len(cubes))
        /\ FEq(CubeHits[k].distance, CubeHits[m].distance)
        /\ CubeColor(k) # CubeColor(m)
        /\ framebuffer[<<px, py>>] = ToHex(CubeColor(k))

\* C2: when the pixel's ray hits a cube, the colour written is a hit cube's
\* shaded colour and not the plane's, whatever the distance of the plane's hit.
C2_CubeOverridesPlane ==
    pc = "plotted" =>
        LET hit == HitCubes(CubeHits, Len(cubes))
            planeColor == PlaneColor
        IN  hit # {} =>
                /\ \E k \in hit :
                    LET color == CubeColor(k)
                    IN  /\ pixel_color = color
                        /\ framebuffer[<<px, py>>] = ToHex(color)
                /\ PlaneHit.is_intersecting =>
                    /\ pixel_color # planeColor
                    /\ framebuffer[<<px, py>>] # ToHex(planeColor)

\* C2's case: a pixel is written whose ray hits the plane strictly nearer than
\* every cube it hits, and it hits one
C2_Witness ==
    /\ pc = "plotted"
    /\ PlaneHit.is_intersecting
    /\ HitCubes(CubeHits, Len(cubes)) # {}
    /\ \A k \in HitCubes(CubeHits, Len(cubes)) :
        FLt(PlaneHit.distance, CubeHits[k].distance)
    /\ \E k \in HitCubes(CubeHits, Len(cubes)) :
        framebuffer[<<px, py>>] = ToHex(CubeColor(k))

\* Intersects whose flag is false and whose other fields hold anything
MissedIntersects ==
    {IntersectEmpty,
     [IntersectNew(Vec3(0, 0, 1), Vec3(0, 0, 1), One, agua) EXCEPT !.is_intersecting = FALSE],
     [IntersectNew(<<NaN, NaN, NaN>>, Vec3(1, 0, 0), NInf, plane_material)
          EXCEPT !.is_intersecting = FALSE]}

\* C3: a pixel whose ray hits neither the plane nor a cube is written with the
\* diffuse colour of the skybox's current material, whatever the direction;
\* and cast_ray returns that colour for an object the ray misses, whatever
\* the other fields of the Intersect.
C3_MissIsSky ==
    pc = "plotted" =>
        LET hits == CubeHits
            sky == skybox.current_material.diffuse
        IN  /\ (~PlaneHit.is_intersecting /\ HitCubes(hits, Len(cubes)) = {}) =>
                   /\ pixel_color = sky
                   /\ framebuffer[<<px, py>>] = ToHex(sky)
            /\ \A k \in 1..Len(cubes) :
                   ~hits[k].is_intersecting => CubeColor(k) = sky
            /\ \A hit \in MissedIntersects :
                   CastRayOn(hit, ray_origin, ray_direction, light, skybox) = sky

\* C3's case: at night, a pixel is written whose ray hits nothing, in a scene
\* that has cubes
C3_Witness ==
    /\ pc = "plotted"
    /\ cubes # <<>>
    /\ ~PlaneHit.is_intersecting
    /\ HitCubes(CubeHits, Len(cubes)) = {}
    /\ skybox.current_material = skybox.night_material
    /\ framebuffer[<<px, py>>] = ToHex(ColorNew(10, 10, 30))

(***************************************************************************)
(* C8, C9: Plane::ray_intersect                                            *)
(***************************************************************************)
\* C8: every hit of Plane::ray_intersect has a hit point whose x and z,
\* measured from the plane's own point, are at most 1.0 in absolute value,
\* wherever the plane's point is.
C8_ClipsAroundPlanePoint ==
    (pc = "plane_done" /\ intersect.is_intersecting) =>
        /\ FLe(FAbs(FSub(intersect.point[1], plane.point[1])), One)
        /\ FLe(FAbs(FSub(intersect.point[3], plane.point[3])), One)

\* what does hold: the clip is on the world coordinates of the hit point, and
\* it decides the ray that solves the plane's equation at a t >= 0
C8_ClipsWorldCoordinates ==
    pc = "plane_done" =>
        LET denom == Dot(plane.normal, ray_direction)
            t == FDiv(Dot(VSub(plane.point, ray_origin), plane.normal), denom)
            p == PointAt(ray_origin, ray_direction, t)
        IN  (FGt(FAbs(denom), Q(1, 1000000)) /\ FGe(t, Zero)) =>
                (intersect.is_intersecting <=>
                     (FLe(FAbs(p[1]), One) /\ FLe(FAbs(p[3]), One)))

\* C9: the normal of every hit of Plane::ray_intersect opposes the ray
\* (their dot product is negative): it is the stored normal when
\* dot(normal, direction) < 0 and its negation otherwise; and the call leaves
\* the plane as it was.
C9_Opposes ==
    (pc = "plane_done" /\ intersect.is_intersecting) =>
        /\ FLt(Dot(intersect.normal, ray_direction), Zero)
        /\ \A i \in Axes :
            FEq(intersect.normal[i],
                IF FLt(Dot(plane.normal, ray_direction), Zero)
                THEN plane.normal[i]
                ELSE FSub(Zero, plane.normal[i]))

C9_NormalFacesRay == []C9_Opposes /\ [][plane' = plane]_vars

\* C9's case: a hit from the side the stored normal points away from, with
\* the negated normal returned
C9_Witness ==
    /\ pc = "plane_done"
    /\ intersect.is_intersecting
    /\ FGt(Dot(plane.normal, ray_direction), Zero)
    /\ intersect.normal # plane.normal
    /\ FLt(Dot(intersect.normal, ray_direction), Zero)

(***************************************************************************)
(* C10: Skybox                                                             *)
(***************************************************************************)
\* the preset the most recent setter selected, the day preset if none was called
SelectedPreset ==
    IF last_call = "set_night" THEN skybox.night_material ELSE skybox.day_material

C10_SampleIsSelected ==
    /\ skybox.current_material = SelectedPreset
    /\ \A d \in Directions : SkyboxSample(skybox, d) = SelectedPreset.diffuse
    /\ pc = "sampled" => sampled = SelectedPreset.diffuse

C10_Frame ==
    /\ skybox'.day_material = skybox.day_material
    /\ skybox'.night_material = skybox.night_material
    /\ pc' = "sampled" => skybox' = skybox

\* C10: after Skybox::new and any calls of set_day and set_night, sample
\* returns, for every direction, the diffuse colour of the preset the most
\* recent call selected (the day preset if there was none); the setters leave
\* day_material and night_material as they were and sample leaves the skybox
\* as it was.
C10_SampleFollowsLastSetter == []C10_SampleIsSelected /\ [][C10_Frame]_vars

\* C10's case: the presets differ, set_night was the last setter called, and
\* sample returned the night preset's diffuse colour
C10_Witness ==
    /\ pc = "sampled"
    /\ last_call = "set_night"
    /\ skybox.day_material.diffuse # skybox.night_material.diffuse
    /\ sampled = skybox.night_material.diffuse

(***************************************************************************)
(* C13                                                                     *)
(***************************************************************************)
\* C13: every hit returned by Cube::ray_intersect has distance >= 0, its hit
\* point lying in front of the ray origin, for every ray origin, those strictly
\* inside the box included.
C13_HitDistanceNonNegative ==
    (pc = "cube_done" /\ intersect.is_intersecting) =>
        FGe(intersect.distance, Zero)

\* the origin lies strictly inside the box
StrictlyInside(cube, origin) ==
    \A i \in Axes : FLt(BoxLo(cube, i), origin[i]) /\ FLt(origin[i], BoxHi(cube, i))

\* what does hold of a hit: the exit parameter is not negative, and the
\* distance is negative exactly when some axis is entered behind the origin,
\* as on every ray that starts strictly inside the box and moves along all
\* three axes
C13_ExitNotBehind ==
    (pc = "cube_done" /\ intersect.is_intersecting) =>
        /\ FGe(TFar(TheCube, ray_origin, ray_direction), Zero)
        /\ intersect.distance = TNear(TheCube, ray_origin, ray_direction)
        /\ (/\ StrictlyInside(TheCube, ray_origin)
            /\ \A i \in Axes : ~IsZero(ray_direction[i])) =>
               FLt(intersect.distance, Zero)

(***************************************************************************)
(* C11, C12: the frame loop                                                *)
(***************************************************************************)
\* render is running: from its call to its return
InRender == pc \in {"pixel", "scan", "plotted", "rendered"}

\* what render reads, and what main keeps of it
Scene == <<plane, cubes, light, skybox, ray_origin, rays, cubos_agua, tiempo, is_day>>

\* the positions a step may lead to
Follows(from, to) ==
    \/ from = "loop" /\ to \in {"animate", "exited"}
    \/ from = "animate" /\ to = "keys"
    \/ from = "keys" /\ to = "compose"
    \/ from = "compose" /\ to = "pixel"
    \/ from = "pixel" /\ to = "scan"
    \/ from = "scan" /\ to \in {"scan", "plotted"}
    \/ from = "plotted" /\ to \in {"pixel", "rendered"}
    \/ from = "rendered" /\ to = "sleep"
    \/ from = "sleep" /\ to = "loop"

C11_Step ==
    /\ Follows(pc, pc')
    \* the time and the water cubes: once per frame, before the keys
    /\ IF pc = "animate"
       THEN /\ tiempo' = FAdd(tiempo, Q(1, 2))
            /\ Len(cubos_agua') = Len(cubos_agua)
            /\ \A i \in DOMAIN cubos_agua :
                /\ cubos_agua'[i].center[2] =
                       FMul(Sin(FAdd(tiempo', Q(i - 1, 1))), Q(5, 100))
                /\ cubos_agua'[i].center[1] = cubos_agua[i].center[1]
                /\ cubos_agua'[i].center[3] = cubos_agua[i].center[3]
                /\ cubos_agua'[i].size = cubos_agua[i].size
                /\ cubos_agua'[i].material = cubos_agua[i].material
       ELSE UNCHANGED <<tiempo, cubos_agua>>
    \* camera, light and skybox: in the key step only
    /\ pc # "keys" => UNCHANGED <<ray_origin, rays, light, skybox, is_day>>
    \* the list of cubes: composed after the keys, from the cubes as they are
    /\ IF pc = "compose"
       THEN cubes' = MainCubes \o cubos_agua
       ELSE UNCHANGED cubes
    \* nothing of the scene moves from the call of render to the presentation
    /\ InRender => UNCHANGED Scene
    \* the buffer is presented after the scan, as the scan left it
    /\ IF pc = "rendered"
       THEN presented' = framebuffer /\ UNCHANGED framebuffer
       ELSE UNCHANGED presented
    /\ pc \notin {"scan"} => UNCHANGED framebuffer
    /\ (pc = "scan" /\ pc' = "scan") => UNCHANGED framebuffer

C11_WrittenOnce ==
    /\ InRender => \A p \in Pixels : writes[p] <= 1
    /\ pc \in {"pixel", "scan"} =>
           \A p \in Pixels :
               writes[p] = IF p[2] < py \/ (p[2] = py /\ p[1] < px) THEN 1 ELSE 0
    /\ pc \in {"rendered", "sleep"} => \A p \in Pixels : writes[p] = 1
    /\ pc = "sleep" => presented = framebuffer
    /\ pc = "exited" => \A p \in Pixels : writes[p] = IF tiempo = Zero THEN 0 ELSE 1

\* C11: in every frame the steps occur in the order: time and water cubes,
\* keys, composition of the cube list, the full pixel scan, presentation,
\* sleep; nothing of the camera, the light, the skybox or the cubes changes
\* from the start of the scan to the presentation; every pixel is written
\* exactly once per scan; and nothing follows the loop test that fails.
C11_FrameOrder == []C11_WrittenOnce /\ [][C11_Step]_vars

\* C11's case: the second frame has been presented, and it shows something
C11_Witness ==
    /\ pc = "sleep"
    /\ tiempo = One
    /\ \A p \in Pixels : writes[p] = 1
    /\ presented = framebuffer
    /\ presented # FramebufferNew
    /\ cubos_agua # MainWater

DayAgrees ==
    /\ is_day
    /\ skybox.current_material = day_material
    /\ light = LightNew(Vec3(5, 5, 5), ColorNew(255, 255, 255), Q(1, 1))

NightAgrees ==
    /\ ~is_day
    /\ skybox.current_material = night_material
    /\ light = LightNew(Vec3(1, 1, 1), ColorNew(20, 20, 50), Q(5, 100))

\* C12: at every call of render in the frame loop the skybox, the light and
\* is_day agree on day or on night; they are on day initially; and the night
\* settings win in a frame where D and N are both down.
C12_SkyAndLightAgree ==
    /\ (pc = "loop" /\ tiempo = Zero) => DayAgrees
    /\ InRender =>
        /\ DayAgrees \/ NightAgrees
        /\ "N" \in down => NightAgrees
        /\ down = {"D"} => DayAgrees

\* C12's case: render is called in the second frame, D and N were both down
\* in it, and the night settings are on
C12_Witness ==
    /\ pc = "pixel"
    /\ px = 0
    /\ py = 0
    /\ tiempo = One
    /\ down = {"D", "N"}
    /\ NightAgrees

====
